---- MODULE Spec2Model ----
(***************************************************************************)
(* Model of the chatcms theme scripts: the subscription forms (footer and  *)
(* article page), the scroll-triggered toggles, the mobile menu, the       *)
(* favorite and copy-link buttons with their toasts, the search box, the   *)
(* article page's start-up and the author page's message box.              *)
(*                                                                         *)
(* Strings the code inspects character by character (email, keyword,       *)
(* order-by value, URL) are sequences of one-character strings.  Fixed     *)
(* texts the code only passes around (alert messages, button labels) are   *)
(* TLA+ strings; the Chinese literals of the source are written as ASCII   *)
(* stand-ins named after them.                                             *)
(***************************************************************************)
EXTENDS Integers, Sequences, FiniteSets, Bags, TLC

VARIABLES
    \* ---- subscription forms (part_000:1-82 footer, part_000:236-317 article)
    setupPc,      \* [Forms -> position of the async setup function]
    fingerprint,  \* [Forms -> value of the hidden fingerprint input]
    email,        \* [Forms -> value of the email input]
    btnLabel,     \* [Forms -> innerHTML / textContent of the submit button]
    btnDisabled,  \* [Forms -> submitBtn.disabled]
    pending,      \* bag of submit-handler invocations suspended at an await
    formPresent,  \* [Forms -> the form and its fingerprint input are in the page]
    env,          \* navigator / screen / timezone values of this browser
    lastOp,       \* the handler step that ran last and the form it ran for
    effects,      \* what that step did, in program order
    \* ---- scroll-triggered toggles (part_000:94-108, 146-167; search.js, author.js:7-28)
    page,            \* which page script is loaded: "article", "search", "author"
    backToTop,       \* #back-to-top: [present, classList]
    navbar,          \* #navbar: [present, classList]
    loaded,          \* DOMContentLoaded has been dispatched
    scrollListeners, \* the scroll listeners registered on window
    scrollY,         \* window.scrollY / window.pageYOffset
    lastScroll,      \* [op, thrown]: the last event and the listeners that threw in it
    prevScroll,      \* [op, y]: the event before the last and the offset it left
    \* ---- header menu and favorite button (part_000:110-137, 169-205)
    menuHidden,   \* #mobile-menu carries the class 'hidden'
    favIcon,      \* classes far / fas of the favorite button's <i>
    favText,      \* textContent of the favorite button's <span>
    favPrimary,   \* the favorite button carries text-primary
    favBefore,    \* favorite-button states before its last two clicks
    lastClick,    \* [target, innerWidth, reachedDocument] of the last click
    \* ---- search box (search.js:30-52)
    keyword,      \* #article-search value
    orderBy,      \* #article-order-by value
    href,         \* the last value assigned to window.location.href
    lastSearch,   \* the last search-box event
    \* ---- article page start-up (part_000:138-144)
    articleDom,   \* [favorite, link]: #favorite-btn and .fa-link are in the page
    initLog,      \* [loaded, called, listeners, thrown] of the DOMContentLoaded listener
    \* ---- toasts and the copy-link button (part_000:184-195, 207-234)
    toasts,       \* [ToastSlots -> "absent" | "shown" | "faded"]: toasts in document.body
    lastToast,    \* what the last click or timer did to document.body
    \* ---- author page message box (author.js:30-47)
    box,          \* classList of #messageBox
    lastBoxClick, \* [target, outer]: the last click, the last one outside the content
    \* ---- fallback hash on its own (part_000:309-316)
    foldInput,    \* the string handed to the loop
    foldOutput    \* what the loop returned for it

subVars ==
    <<setupPc, fingerprint, email, btnLabel, btnDisabled, pending, formPresent, env>>
subscribeVars == <<subVars, lastOp, effects>>
scrollVars ==
    <<page, backToTop, navbar, loaded, scrollListeners, scrollY, lastScroll, prevScroll>>
clickVars == <<menuHidden, favIcon, favText, favPrimary, favBefore, lastClick>>
searchVars == <<keyword, orderBy, href, lastSearch>>
articleVars == <<articleDom, initLog>>
toastVars == <<toasts, lastToast>>
authorVars == <<box, lastBoxClick>>
foldVars == <<foldInput, foldOutput>>
vars ==
    <<subscribeVars, scrollVars, clickVars, searchVars,
      articleVars, toastVars, authorVars, foldVars>>

\* the components share no state: a step of one leaves the others alone
SubscribeOnly ==
    UNCHANGED <<scrollVars, clickVars, searchVars, articleVars, toastVars, authorVars, foldVars>>
ScrollOnly ==
    UNCHANGED <<subscribeVars, clickVars, searchVars, articleVars, toastVars, authorVars, foldVars>>
ClickOnly ==
    UNCHANGED <<subscribeVars, scrollVars, searchVars, articleVars, authorVars, foldVars>>
SearchOnly ==
    UNCHANGED <<subscribeVars, scrollVars, clickVars, articleVars, toastVars, authorVars, foldVars>>
ArticleOnly ==
    UNCHANGED <<scrollVars, clickVars, searchVars, toastVars, authorVars, foldVars>>
AuthorOnly ==
    UNCHANGED <<subscribeVars, scrollVars, clickVars, searchVars, articleVars, toastVars, foldVars>>
FoldOnly ==
    UNCHANGED <<subscribeVars, scrollVars, clickVars, searchVars, articleVars, toastVars, authorVars>>

\* ------------------------------------------------------------------ bounds
\* submit-handler invocations that may be suspended at the same time
MaxPending == 2

\* ------------------------------------------------------------- string helpers
WhiteSpace == {" "}

RECURSIVE trimStart(_)
trimStart(s) ==
    IF s # <<>> /\ Head(s) \in WhiteSpace THEN trimStart(Tail(s)) ELSE s

RECURSIVE trimEnd(_)
trimEnd(s) ==
    IF s # <<>> /\ s[Len(s)] \in WhiteSpace
    THEN trimEnd(SubSeq(s, 1, Len(s) - 1))
    ELSE s

\* String.prototype.trim
trim(s) == trimEnd(trimStart(s))

\* String.prototype.includes for a one-character needle
includes(s, c) == \E i \in 1..Len(s) : s[i] = c

\* ------------------------------------------------------------ subscription
Forms == {"footer", "article"}

\* values a user can leave in the email input
Emails ==
    { <<>>,
      <<" ">>,
      <<"a", "b">>,
      <<" ", "a", "@", "b", " ">> }

\* label of the submit button as the template renders it
PageLoadLabel(f) ==
    IF f = "footer" THEN "FOOTER_BUTTON_HTML" ELSE "ARTICLE_BUTTON_TEXT"

\* '<i class="fas fa-spinner fa-spin"></i>' (footer), '订阅中...' (article)
LoadingLabel(f) ==
    IF f = "footer" THEN "SPINNER_HTML" ELSE "SUBSCRIBING_TEXT"

\* alert('请输入有效的邮箱地址')
InvalidEmailAlert == "PLEASE_ENTER_A_VALID_EMAIL"

\* alert('订阅失败，请稍后重试')
SubscribeFailedAlert == "SUBSCRIBE_FAILED_RETRY_LATER"

\* result.visitorId of the fingerprint library
VisitorIds == { <<"v", "1">> }

\* bodies a /subscribe response can parse to; null stands for any body whose
\* .message access throws
Results ==
    { [null |-> FALSE, success |-> TRUE,  message |-> "ok"],
      [null |-> FALSE, success |-> FALSE, message |-> "x"],
      [null |-> TRUE,  success |-> FALSE, message |-> ""] }

\* the same test without the '@' clause
EmailRejected_noAt(e) == e = <<>>

\* if (!email || !email.includes('@'))
EmailRejected(e) == e = <<>> \/ ~includes(e, "@")

\* ------------------------------------------------- fallback fingerprint
\* browsers the page may run in
Envs ==
    { [userAgent |-> <<"M">>, width |-> 8, height |-> 6, colorDepth |-> 24,
       timezoneOffset |-> -60, language |-> <<"z">>],
      [userAgent |-> <<"z">>, width |-> 12, height |-> 8, colorDepth |-> 30,
       timezoneOffset |-> 0, language |-> <<"e">>] }

DecimalDigits == <<"0", "1", "2", "3", "4", "5", "6", "7", "8", "9">>
HexDigits ==
    <<"0", "1", "2", "3", "4", "5", "6", "7", "8", "9", "a", "b", "c", "d", "e", "f">>

RECURSIVE natToString(_, _)
natToString(n, radix) ==
    IF n < radix
    THEN <<HexDigits[n + 1]>>
    ELSE natToString(n \div radix, radix) \o <<HexDigits[(n % radix) + 1]>>

\* Number -> String as join() and template literals do it
numberToString(n) ==
    IF n < 0 THEN <<"-">> \o natToString(-n, 10) ELSE natToString(n, 10)

\* String.prototype.charCodeAt over the characters the components can hold
charCode(c) ==
    CASE c = "-" -> 45
      [] c = "x" -> 120
      [] c = "|" -> 124
      [] c = "M" -> 77
      [] c = "z" -> 122
      [] c = "e" -> 101
      [] OTHER -> 48 + (CHOOSE d \in 0..9 : DecimalDigits[d + 1] = c)

\* 32-bit integers are kept as two 16-bit halves <<hi, lo>> of the two's
\* complement bit pattern
Half == 65536

\* a shift by four bits in place of five
shiftLeft5_byFour(h) ==
    LET lo == h[2] * 16
    IN  <<(h[1] * 16 + lo \div Half) % Half, lo % Half>>

\* hash << 5
shiftLeft5(h) ==
    LET lo == h[2] * 32
    IN  <<(h[1] * 32 + lo \div Half) % Half, lo % Half>>

\* ((hash << 5) - hash) + code, then hash |= 0
foldStep(h, code) ==
    LET a  == shiftLeft5(h)
        lo == a[2] - h[2] + code
    IN  <<(a[1] - h[1] + lo \div Half) % Half, lo % Half>>

\* hash.toString(16) of the signed 32-bit value
int32ToHex(h) ==
    LET neg   == h[1] >= Half \div 2
        magLo == IF neg THEN (Half - h[2]) % Half ELSE h[2]
        magHi == IF neg THEN (Half - 1) - h[1] + (IF h[2] = 0 THEN 1 ELSE 0) ELSE h[1]
        lowHex == natToString(magLo, 16)
        pad    == [i \in 1..(4 - Len(lowHex)) |-> "0"]
        digits == IF magHi = 0 THEN lowHex
                  ELSE natToString(magHi, 16) \o pad \o lowHex
    IN  IF neg THEN <<"-">> \o digits ELSE digits

\* [ ... ].join('|')
components(e) ==
    e.userAgent \o <<"|">>
      \o numberToString(e.width) \o <<"x">> \o numberToString(e.height) \o <<"|">>
      \o numberToString(e.colorDepth) \o <<"|">>
      \o numberToString(e.timezoneOffset) \o <<"|">>
      \o e.language

\* the catch branch: the loop over components.charCodeAt(i), from index i
\* with hash h; each iteration's hash is bound through a singleton set, which
\* makes TLC compute it before the next iteration starts
RECURSIVE foldHash(_, _, _)
foldHash(s, i, h) ==
    IF i > Len(s)
    THEN h
    ELSE CHOOSE r \in {foldHash(s, i + 1, n) : n \in {foldStep(h, charCode(s[i]))}} : TRUE

\* the try branch: hex of the platform's SHA-256 digest, kept symbolic
sha256Hex(s) == <<"sha256:">> \o s

\* generateSimpleFingerprint; digestOk: TextEncoder and crypto.subtle.digest
\* are there and the digest promise resolves
\* the catch branch as a whole: let hash = 0, the loop, hash.toString(16)
foldHashHex(s) ==
    CHOOSE r \in {int32ToHex(foldHash(t, 1, <<0, 0>>)) : t \in {s}} : TRUE

generateSimpleFingerprint(e, digestOk) ==
    IF digestOk
    THEN sha256Hex(components(e))
    ELSE foldHashHex(components(e))

\* ---- the catch branch on strings of its own
\* longest string handed to the loop
MaxFoldLen == 7

\* characters of the strings: code units 48, 122, 124
FoldChars == {"0", "z", "|"}

FoldStrings == UNION {[1..n -> FoldChars] : n \in 0..MaxFoldLen}

\* generateSimpleFingerprint where TextEncoder or crypto.subtle.digest throws
\* and components is foldInput
ComputeFold ==
    /\ foldOutput = <<>>
    /\ foldOutput' = foldHashHex(foldInput)
    /\ FoldOnly
    /\ UNCHANGED foldInput

Alert(msg) == <<"alert", msg>>
Post(em, fp) == <<"POST", em, fp>>
SetLabel(v) == <<"label", v>>
SetDisabled(b) == <<"disabled", b>>
ClearEmail == <<"clearEmail">>
SetFingerprint(v) == <<"fingerprint", v>>
AddSubmitListener == <<"addEventListener", "submit">>

Op(name, f) == [op |-> name, form |-> f]

\* ---- setup: initializeFooterSubscribe / setupSubscribeFunctionality
\* where the call stands when it hands back its promise:
\* if (!form || !fingerprintInput) return; otherwise at await fpPromise
setupEntry(f) == IF formPresent[f] THEN "awaitFpPromise" ELSE "returned"

\* the call from DOMContentLoaded, up to the first await
SetupCalled(f) ==
    /\ setupPc[f] = "start"
    /\ setupPc' = [setupPc EXCEPT ![f] = setupEntry(f)]
    /\ SubscribeOnly
    /\ lastOp' = Op("setupCalled", f)
    /\ effects' = <<>>
    /\ UNCHANGED <<fingerprint, email, btnLabel, btnDisabled, pending, formPresent, env>>

\* await fpPromise resolves: fp.get() is called
FpPromiseResolved(f) ==
    /\ setupPc[f] = "awaitFpPromise"
    /\ setupPc' = [setupPc EXCEPT ![f] = "awaitGet"]
    /\ SubscribeOnly
    /\ lastOp' = Op("fpPromiseResolved", f)
    /\ effects' = <<>>
    /\ UNCHANGED <<fingerprint, email, btnLabel, btnDisabled, pending, formPresent, env>>

\* await fpPromise throws (rejected, or fpPromise is not defined): the catch
\* block calls generateSimpleFingerprint
FpPromiseRejected(f) ==
    /\ setupPc[f] = "awaitFpPromise"
    /\ setupPc' = [setupPc EXCEPT ![f] = "awaitFallback"]
    /\ SubscribeOnly
    /\ lastOp' = Op("fpPromiseRejected", f)
    /\ effects' = <<>>
    /\ UNCHANGED <<fingerprint, email, btnLabel, btnDisabled, pending, formPresent, env>>

\* the rest of setup once the fingerprint value v is known: the field is
\* assigned and the submit listener is added
InstallWith(f, v) ==
    /\ fingerprint' = [fingerprint EXCEPT ![f] = v]
    /\ setupPc' = [setupPc EXCEPT ![f] = "installed"]
    /\ effects' = <<SetFingerprint(v), AddSubmitListener>>
    /\ UNCHANGED <<email, btnLabel, btnDisabled, pending, formPresent, env>>

\* await fp.get() resolves with result.visitorId = vid
GetResolved(f, vid) ==
    /\ setupPc[f] = "awaitGet"
    /\ SubscribeOnly
    /\ lastOp' = Op("getResolved", f)
    /\ InstallWith(f, vid)

\* a failure of fp.get() that ends setup without a fallback
GetRejected_givesUp(f) ==
    /\ setupPc[f] = "awaitGet"
    /\ setupPc' = [setupPc EXCEPT ![f] = "returned"]
    /\ SubscribeOnly
    /\ lastOp' = Op("getRejected", f)
    /\ effects' = <<>>
    /\ UNCHANGED <<fingerprint, email, btnLabel, btnDisabled, pending, formPresent, env>>

\* await fp.get() rejects (or result.visitorId throws): the catch block calls
\* generateSimpleFingerprint
GetRejected(f) ==
    /\ setupPc[f] = "awaitGet"
    /\ setupPc' = [setupPc EXCEPT ![f] = "awaitFallback"]
    /\ SubscribeOnly
    /\ lastOp' = Op("getRejected", f)
    /\ effects' = <<>>
    /\ UNCHANGED <<fingerprint, email, btnLabel, btnDisabled, pending, formPresent, env>>

\* await generateSimpleFingerprint() resolves
FallbackResolved(f, digestOk) ==
    /\ setupPc[f] = "awaitFallback"
    /\ SubscribeOnly
    /\ lastOp' = Op("fallbackResolved", f)
    /\ InstallWith(f, generateSimpleFingerprint(env, digestOk))

\* ---- the user edits the email input
UserTypesEmail(f, s) ==
    /\ formPresent[f]
    /\ email[f] # s
    /\ email' = [email EXCEPT ![f] = s]
    /\ SubscribeOnly
    /\ lastOp' = Op("userTypesEmail", f)
    /\ effects' = <<>>
    /\ UNCHANGED <<setupPc, fingerprint, btnLabel, btnDisabled, pending, formPresent, env>>

\* ---- the submit listener
Invocation(f, orig, phase) == [form |-> f, originalLabel |-> orig, phase |-> phase]

\* the label the handler reads into originalHtml / originalText
capturedLabel(f) == btnLabel[f]

\* the listener up to its first await: validation, loading state, fetch()
Submit(f) ==
    /\ setupPc[f] = "installed"
    /\ SubscribeOnly
    /\ lastOp' = Op("submit", f)
    /\ IF EmailRejected(trim(email[f]))
       THEN /\ effects' = <<Alert(InvalidEmailAlert)>>
            /\ UNCHANGED subVars
       ELSE /\ BagCardinality(pending) < MaxPending
            /\ btnLabel' = [btnLabel EXCEPT ![f] = LoadingLabel(f)]
            /\ btnDisabled' = [btnDisabled EXCEPT ![f] = TRUE]
            /\ pending' = pending (+) SetToBag({Invocation(f, capturedLabel(f), "fetch")})
            /\ effects' = <<SetLabel(LoadingLabel(f)), SetDisabled(TRUE),
                            Post(email[f], fingerprint[f])>>
            /\ UNCHANGED <<setupPc, fingerprint, email, formPresent, env>>

\* finally { submitBtn.innerHTML = originalHtml; submitBtn.disabled = false; }
finallyEffects(inv) == <<SetLabel(inv.originalLabel), SetDisabled(FALSE)>>

Finally(inv) ==
    /\ btnLabel' = [btnLabel EXCEPT ![inv.form] = inv.originalLabel]
    /\ btnDisabled' = [btnDisabled EXCEPT ![inv.form] = FALSE]
    /\ pending' = pending (-) SetToBag({inv})

\* a catch block that also posts the form again
catchEffects_retry(inv) ==
    <<Alert(SubscribeFailedAlert), Post(email[inv.form], fingerprint[inv.form])>>

\* catch (error) { alert('订阅失败，请稍后重试'); }
catchEffects(inv) == <<Alert(SubscribeFailedAlert)>>

Catch(inv) ==
    /\ effects' = catchEffects(inv) \o finallyEffects(inv)
    /\ Finally(inv)
    /\ UNCHANGED <<setupPc, fingerprint, email, formPresent, env>>

\* await fetch(...) rejects
FetchRejected(inv) ==
    /\ BagIn(inv, pending)
    /\ inv.phase = "fetch"
    /\ SubscribeOnly
    /\ lastOp' = Op("fetchRejected", inv.form)
    /\ Catch(inv)

\* await fetch(...) resolves: response.json() is called
FetchResolved(inv) ==
    /\ BagIn(inv, pending)
    /\ inv.phase = "fetch"
    /\ SubscribeOnly
    /\ lastOp' = Op("fetchResolved", inv.form)
    /\ pending' = (pending (-) SetToBag({inv}))
                     (+) SetToBag({Invocation(inv.form, inv.originalLabel, "json")})
    /\ effects' = <<>>
    /\ UNCHANGED <<setupPc, fingerprint, email, btnLabel, btnDisabled, formPresent, env>>

\* await response.json() rejects
JsonRejected(inv) ==
    /\ BagIn(inv, pending)
    /\ inv.phase = "json"
    /\ SubscribeOnly
    /\ lastOp' = Op("jsonRejected", inv.form)
    /\ Catch(inv)

\* clearing without looking at result.success
clearsEmail_always(r) == TRUE

\* if (result.success) { emailInput.value = ''; }
clearsEmail(r) == r.success

\* await response.json() resolves with r: the rest of the try block, then
\* finally; reading r.message of a null body throws into the catch block
JsonResolved(inv, r) ==
    /\ BagIn(inv, pending)
    /\ inv.phase = "json"
    /\ SubscribeOnly
    /\ lastOp' = [op |-> "jsonResolved", form |-> inv.form, result |-> r]
    /\ IF r.null
       THEN Catch(inv)
       ELSE /\ email' = IF clearsEmail(r)
                        THEN [email EXCEPT ![inv.form] = <<>>]
                        ELSE email
            /\ effects' = <<Alert(r.message)>>
                            \o (IF clearsEmail(r) THEN <<ClearEmail>> ELSE <<>>)
                            \o finallyEffects(inv)
            /\ Finally(inv)
            /\ UNCHANGED <<setupPc, fingerprint, formPresent, env>>

\* ------------------------------------------------ scroll-triggered toggles
Pages == {"article", "search", "author"}

BackToTopThreshold == 300
NavbarThreshold == 50

\* offsets a scroll event can report
ScrollOffsets == {0, 50, 51, 299, 300, 301}

Element(present, classList) == [present |-> present, classList |-> classList]

VisibleClasses == {"opacity-100", "visible"}
HiddenClasses == {"opacity-0", "invisible"}

\* the listener with the comparison >= in place of >
backToTopScroll_article_ge(cl, y) ==
    IF y >= BackToTopThreshold
    THEN (cl \ HiddenClasses) \cup VisibleClasses
    ELSE (cl \ VisibleClasses) \cup HiddenClasses

\* scroll listener of setupBackToTopFunctionality, article page script
backToTopScroll_article(cl, y) ==
    IF y > BackToTopThreshold
    THEN (cl \ {"opacity-0", "invisible"}) \cup {"opacity-100", "visible"}
    ELSE (cl \ {"opacity-100", "visible"}) \cup {"opacity-0", "invisible"}

\* the copy in search.js
backToTopScroll_search(cl, y) ==
    IF y > BackToTopThreshold
    THEN (cl \ {"opacity-0", "invisible"}) \cup {"opacity-100", "visible"}
    ELSE (cl \ {"opacity-100", "visible"}) \cup {"opacity-0", "invisible"}

\* the copy in author.js
backToTopScroll_author(cl, y) ==
    IF y > BackToTopThreshold
    THEN (cl \ {"opacity-0", "invisible"}) \cup {"opacity-100", "visible"}
    ELSE (cl \ {"opacity-100", "visible"}) \cup {"opacity-0", "invisible"}

backToTopScroll(pg, cl, y) ==
    CASE pg = "article" -> backToTopScroll_article(cl, y)
      [] pg = "search"  -> backToTopScroll_search(cl, y)
      [] pg = "author"  -> backToTopScroll_author(cl, y)

\* the listener without classList.remove('bg-white/90')
navbarScroll_keepsTranslucent(cl, y) ==
    IF y > NavbarThreshold
    THEN (cl \cup {"shadow-md"}) \cup {"bg-white"}
    ELSE ((cl \ {"shadow-md"}) \cup {"bg-white/90"}) \ {"bg-white"}

\* scroll listener of initNavbar
navbarScroll(cl, y) ==
    IF y > NavbarThreshold
    THEN ((cl \cup {"shadow-md"}) \ {"bg-white/90"}) \cup {"bg-white"}
    ELSE ((cl \ {"shadow-md"}) \cup {"bg-white/90"}) \ {"bg-white"}

\* initNavbar: the listener is added whether or not #navbar exists
initNavbar(nav) == {"navbar"}

\* setupBackToTopFunctionality: if (backToTopButton) { ... }
setupBackToTopFunctionality(btn) == IF btn.present THEN {"backToTop"} ELSE {}

\* the DOMContentLoaded listeners that install the scroll listeners
DOMContentLoaded ==
    /\ ~loaded
    /\ loaded' = TRUE
    /\ scrollListeners' = initNavbar(navbar) \cup setupBackToTopFunctionality(backToTop)
    /\ ScrollOnly
    /\ lastScroll' = [op |-> "DOMContentLoaded", thrown |-> {}]
    /\ prevScroll' = [op |-> lastScroll.op, y |-> scrollY]
    /\ UNCHANGED <<page, backToTop, navbar, scrollY>>

\* one scroll event at offset y: every registered listener runs; a listener
\* that dereferences a missing element throws a TypeError, which does not
\* stop the other listeners
DispatchScroll(op, y) ==
    /\ scrollY' = y
    /\ navbar' = IF "navbar" \in scrollListeners /\ navbar.present
                 THEN Element(TRUE, navbarScroll(navbar.classList, y))
                 ELSE navbar
    /\ backToTop' = IF "backToTop" \in scrollListeners
                    THEN Element(TRUE, backToTopScroll(page, backToTop.classList, y))
                    ELSE backToTop
    /\ ScrollOnly
    /\ lastScroll' = [op |-> op,
                      thrown |-> IF "navbar" \in scrollListeners /\ ~navbar.present
                                 THEN {"navbar"} ELSE {}]
    /\ prevScroll' = [op |-> lastScroll.op, y |-> scrollY]
    /\ UNCHANGED <<page, loaded, scrollListeners>>

Scroll(y) == DispatchScroll("scroll", y)

\* click on #back-to-top: window.scrollTo({top: 0, behavior: 'smooth'}), which
\* ends with a scroll event at offset 0
BackToTopClick ==
    /\ "backToTop" \in scrollListeners
    /\ DispatchScroll("backToTopClick", 0)

\* ------------------------------------------- mobile menu, favorite button
MobileBreakpoint == 768

\* window.innerWidth at the time of a click
InnerWidths == {320, 767, 768, 1280}

\* where a click can land
ClickTargets == {"menu-toggle", "mobile-menu", "favorite-btn", "copy-link", "elsewhere"}

\* the template renders #mobile-menu with the class 'hidden'
MobileMenuStartsHidden == TRUE

\* mobileMenu.contains(e.target), menuToggle.contains(e.target)
mobileMenuContains(t) == t = "mobile-menu"
menuToggleContains(t) == t = "menu-toggle"

\* toggleMenu: mobileMenu.classList.toggle('hidden')
toggleMenu(hidden) == ~hidden

\* the click listener on #mobile-menu: e.stopPropagation()
stopsPropagation(t) == mobileMenuContains(t)

\* the document listener without the viewport test
documentClick_anyWidth(hidden, t, w) ==
    IF ~mobileMenuContains(t) /\ ~menuToggleContains(t) THEN TRUE ELSE hidden

\* the click listener on document
documentClick(hidden, t, w) ==
    IF w < MobileBreakpoint
    THEN IF ~mobileMenuContains(t) /\ ~menuToggleContains(t) THEN TRUE ELSE hidden
    ELSE hidden

\* favorite-button state: [icon, text, primary]
FavState(icon, text, primary) == [icon |-> icon, text |-> text, primary |-> primary]

\* '已收藏', '收藏文章', and a label the script never writes
FavoritedText == "FAVORITED"
UnfavoritedText == "FAVORITE_THIS_ARTICLE"
FavTexts == {FavoritedText, UnfavoritedText, "OTHER_LABEL"}

\* the listener without this.classList.remove('text-primary')
favoriteClick_keepsColor(st) ==
    IF "far" \in st.icon
    THEN FavState((st.icon \ {"far"}) \cup {"fas"}, FavoritedText, TRUE)
    ELSE FavState((st.icon \ {"fas"}) \cup {"far"}, UnfavoritedText, st.primary)

\* the click listener on #favorite-btn
favoriteClick(st) ==
    IF "far" \in st.icon
    THEN FavState((st.icon \ {"far"}) \cup {"fas"}, FavoritedText, TRUE)
    ELSE FavState((st.icon \ {"fas"}) \cup {"far"}, UnfavoritedText, FALSE)

favNow == FavState(favIcon, favText, favPrimary)

\* ---- toasts
\* toasts that may be in document.body at the same time
MaxToasts == 2

\* each createElement('div') result is an element of its own; a slot stands
\* for one of them while it is in the body
ToastSlots == 1..MaxToasts

\* '收藏成功！', '链接已复制！'
FavoriteToastText == "FAVORITED_OK"
CopyToastText == "LINK_COPIED"

AppendToast(text) == <<"appendChild", "div", text>>
AppendInput == <<"appendChild", "input">>
RemoveInput == <<"removeChild", "input">>
SetOpacity0 == <<"style.opacity", "0">>
RemoveToast == <<"removeChild", "div">>

\* the favorite listener with the toast on both branches
favoriteBody_always(st) == <<AppendToast(FavoriteToastText)>>

\* what the favorite listener does to document.body: the toast is created
\* in the branch that favorites (icon.classList.contains('far'))
favoriteBody(st) ==
    IF "far" \in st.icon THEN <<AppendToast(FavoriteToastText)>> ELSE <<>>

\* the copy-link listener without document.body.removeChild(tempInput)
copyLinkBody_keepsInput ==
    << AppendInput, <<"value", "location.href">>, <<"select">>,
       <<"execCommand", "copy">>, AppendToast(CopyToastText) >>

\* what the copy-link listener does to document.body, in program order;
\* document.execCommand returns false where copying is not possible
copyLinkBody ==
    << AppendInput, <<"value", "location.href">>, <<"select">>,
       <<"execCommand", "copy">>, RemoveInput, AppendToast(CopyToastText) >>

\* the writes of a click on t
clickBody(t, st) ==
    CASE t = "favorite-btn" -> favoriteBody(st)
      [] t = "copy-link"    -> copyLinkBody
      [] OTHER              -> <<>>

Occurrences(es, e) == Cardinality({i \in 1..Len(es) : es[i] = e})

\* temporary inputs and toasts the writes es leave in the body
inputsLeft(es) == Occurrences(es, AppendInput) - Occurrences(es, RemoveInput)
toastsAppended(es) ==
    Occurrences(es, AppendToast(FavoriteToastText)) + Occurrences(es, AppendToast(CopyToastText))

\* one click: the target's listeners run, then the event bubbles through
\* #mobile-menu (when the target is inside it) up to document
Click(t, w) ==
    LET afterTarget == IF menuToggleContains(t) THEN toggleMenu(menuHidden) ELSE menuHidden
        reaches     == ~stopsPropagation(t)
        fav         == IF t = "favorite-btn" THEN favoriteClick(favNow) ELSE favNow
        body        == clickBody(t, favNow)
        free        == {i \in ToastSlots : toasts[i] = "absent"}
        slot        == IF toastsAppended(body) = 0
                       THEN 0
                       ELSE CHOOSE i \in free : \A j \in free : i <= j
    IN  /\ toastsAppended(body) > 0 => free # {}
        /\ menuHidden' = IF reaches THEN documentClick(afterTarget, t, w) ELSE afterTarget
        /\ favIcon' = fav.icon
        /\ favText' = fav.text
        /\ favPrimary' = fav.primary
        /\ favBefore' = IF t = "favorite-btn"
                        THEN IF Len(favBefore) = 2
                             THEN <<favBefore[2], favNow>>
                             ELSE favBefore \o <<favNow>>
                        ELSE favBefore
        /\ toasts' = IF slot = 0 THEN toasts ELSE [toasts EXCEPT ![slot] = "shown"]
        /\ lastToast' = [op |-> "click", slot |-> slot, body |-> body]
        /\ ClickOnly
        /\ lastClick' = [target |-> t, innerWidth |-> w, reachedDocument |-> reaches]

\* the 2000 ms timer of a toast: notification.style.opacity = '0', and the
\* 300 ms timer is set
ToastFade(i) ==
    /\ toasts[i] = "shown"
    /\ toasts' = [toasts EXCEPT ![i] = "faded"]
    /\ lastToast' = [op |-> "fade", slot |-> i, body |-> <<SetOpacity0>>]
    /\ ClickOnly
    /\ UNCHANGED clickVars

\* the 300 ms timer of a toast: document.body.removeChild(notification)
ToastRemove(i) ==
    /\ toasts[i] = "faded"
    /\ toasts' = [toasts EXCEPT ![i] = "absent"]
    /\ lastToast' = [op |-> "remove", slot |-> i, body |-> <<RemoveToast>>]
    /\ ClickOnly
    /\ UNCHANGED clickVars

\* --------------------------------------------------------------- search box
\* values the search input can hold
Keywords == { <<>>, <<" ">>, <<"r">>, <<" ", "r", "&", " ">> }

\* values of the order-by <option> elements
OrderBys == { <<"d">>, <<"v", " ">>, <<>> }

Keys == {"Enter", "a", "Escape"}

\* performSearch without the trim() of the search term
performSearch_untrimmedTerm(k, o) ==
    <<"/search?keyword=">> \o k \o <<"&order_by=">> \o trim(o)

\* performSearch: the string assigned to window.location.href
performSearch(k, o) ==
    LET searchTerm   == trim(k)
        orderByValue == trim(o)
    IN  IF searchTerm # <<>>
        THEN <<"/search?keyword=">> \o searchTerm \o <<"&order_by=">> \o orderByValue
        ELSE <<"/search?keyword=">> \o <<"&order_by=">> \o orderByValue

\* the keypress listener: if (e.key === 'Enter')
keypressSearches(key) == key = "Enter"

UserTypesKeyword(k) ==
    /\ keyword # k
    /\ keyword' = k
    /\ SearchOnly
    /\ lastSearch' = [op |-> "input", key |-> ""]
    /\ UNCHANGED <<orderBy, href>>

UserSelectsOrder(o) ==
    /\ orderBy # o
    /\ orderBy' = o
    /\ SearchOnly
    /\ lastSearch' = [op |-> "select", key |-> ""]
    /\ UNCHANGED <<keyword, href>>

SearchButtonClick ==
    /\ href' = performSearch(keyword, orderBy)
    /\ SearchOnly
    /\ lastSearch' = [op |-> "click", key |-> ""]
    /\ UNCHANGED <<keyword, orderBy>>

SearchKeypress(key) ==
    /\ href' = IF keypressSearches(key) THEN performSearch(keyword, orderBy) ELSE href
    /\ SearchOnly
    /\ lastSearch' = [op |-> "keypress", key |-> key]
    /\ UNCHANGED <<keyword, orderBy>>

\* --------------------------------------------------- article page start-up
\* setupFavoriteFunctionality: if (favoriteBtn) { favoriteBtn.addEventListener(...) }
setupFavoriteFunctionality(dom) == IF dom.favorite THEN {"favorite"} ELSE {}

\* setupCopyLinkFunctionality reads document.querySelector('.fa-link').parentElement
\* before it tests copyLinkBtn: with no .fa-link in the page querySelector
\* returns null and the read throws a TypeError
copyLinkThrows(dom) == ~dom.link

setupCopyLinkFunctionality(dom) == IF dom.link THEN {"copyLink"} ELSE {}

\* the calls of the DOMContentLoaded listener, in program order
articleSetupSteps == <<"backToTop", "favorite", "copyLink", "subscribe">>

\* the calls that are made: an exception in a step ends the listener
stepsCalled(dom) ==
    IF copyLinkThrows(dom)
    THEN SelectSeq(articleSetupSteps, LAMBDA st : st # "subscribe")
    ELSE articleSetupSteps

\* the DOMContentLoaded listener of the article page
ArticleDOMContentLoaded ==
    /\ ~initLog.loaded
    /\ initLog' = [loaded    |-> TRUE,
                   called    |-> stepsCalled(articleDom),
                   listeners |-> setupBackToTopFunctionality(backToTop)
                                   \cup setupFavoriteFunctionality(articleDom)
                                   \cup setupCopyLinkFunctionality(articleDom),
                   thrown    |-> IF copyLinkThrows(articleDom) THEN {"copyLink"} ELSE {}]
    /\ setupPc' = IF copyLinkThrows(articleDom)
                  THEN setupPc
                  ELSE [setupPc EXCEPT !["article"] = setupEntry("article")]
    /\ ArticleOnly
    /\ lastOp' = Op("DOMContentLoaded", "article")
    /\ effects' = <<>>
    /\ UNCHANGED <<articleDom, fingerprint, email, btnLabel, btnDisabled, pending,
                   formPresent, env>>

\* what the browser does with a submit event no listener cancelled: it
\* submits the form itself
DefaultSubmission == <<"defaultSubmission">>

\* a submit event on a form that has no submit listener yet (setup is
\* suspended at an await, or was never called); the page keeps running until
\* the navigation commits
SubmitWithoutListener(f) ==
    /\ initLog.loaded
    /\ formPresent[f]
    /\ setupPc[f] # "installed"
    /\ SubscribeOnly
    /\ lastOp' = Op("submitWithoutListener", f)
    /\ effects' = <<DefaultSubmission>>
    /\ UNCHANGED subVars

\* ------------------------------------------------ author page message box
\* where a click on the author page can land: the apply button, the close
\* button, #messageBox itself (its backdrop), and content inside #messageBox
AuthorTargets == {"applyBtn", "closeBtn", "messageBox", "content"}

\* the click listener on #applyBtn
applyClick(cl) == (cl \ {"hidden"}) \cup {"fade-in"}

\* the click listener on #closeBtn
closeClick(cl) == cl \cup {"hidden"}

\* the listener on #messageBox with the test of e.target left out
boxClick_anyTarget(cl, t) == cl \cup {"hidden"}

\* the click listener on #messageBox: if (e.target === this)
boxClick(cl, t) == IF t = "messageBox" THEN cl \cup {"hidden"} ELSE cl

\* targets whose click events pass through #messageBox
insideBox(t) == t \in {"closeBtn", "messageBox", "content"}

\* one click on the author page, once setupApplyBtnFunctionality has run
AuthorClick(t) ==
    LET afterTarget == CASE t = "applyBtn" -> applyClick(box)
                         [] t = "closeBtn" -> closeClick(box)
                         [] OTHER          -> box
    IN  /\ loaded
        /\ box' = IF insideBox(t) THEN boxClick(afterTarget, t) ELSE afterTarget
        /\ lastBoxClick' = [target |-> t,
                            outer  |-> IF t = "content" THEN lastBoxClick.outer ELSE t]
        /\ AuthorOnly

\* ------------------------------------------------------- specification
\* each component is checked in a specification of its own; the other
\* components then rest in the state below
SubscribeAtRest ==
    /\ setupPc = [f \in Forms |-> "start"]
    /\ fingerprint = [f \in Forms |-> <<>>]
    /\ email = [f \in Forms |-> <<>>]
    /\ btnLabel = [f \in Forms |-> PageLoadLabel(f)]
    /\ btnDisabled = [f \in Forms |-> FALSE]
    /\ pending = EmptyBag
    /\ lastOp = Op("load", "none")
    /\ effects = <<>>

NoForms ==
    /\ formPresent = [f \in Forms |-> FALSE]
    /\ env = CHOOSE e \in Envs : e.timezoneOffset = 0

ScrollAtRest ==
    /\ loaded = FALSE
    /\ scrollListeners = {}
    /\ scrollY = 0
    /\ lastScroll = [op |-> "load", thrown |-> {}]
    /\ prevScroll = [op |-> "none", y |-> 0]

ClickAtRest ==
    /\ menuHidden = MobileMenuStartsHidden
    /\ favBefore = <<>>
    /\ lastClick = [target |-> "none", innerWidth |-> 0, reachedDocument |-> FALSE]

SearchAtRest ==
    /\ keyword = <<>>
    /\ href = <<>>
    /\ lastSearch = [op |-> "load", key |-> ""]

ArticleAtRest ==
    initLog = [loaded |-> FALSE, called |-> <<>>, listeners |-> {}, thrown |-> {}]

AllArticleElements == articleDom = [favorite |-> TRUE, link |-> TRUE]

ToastAtRest ==
    /\ toasts = [i \in ToastSlots |-> "absent"]
    /\ lastToast = [op |-> "load", slot |-> 0, body |-> <<>>]

\* the box is closed until the apply button opens it
AuthorAtRest ==
    /\ box = {"hidden"}
    /\ lastBoxClick = [target |-> "none", outer |-> "none"]

FoldAtRest == foldOutput = <<>>

NoFold == foldInput = <<>>

\* ---- the subscription forms
Init ==
    /\ SubscribeAtRest
    /\ formPresent \in [Forms -> BOOLEAN]
    /\ env \in Envs
    /\ ScrollAtRest /\ page = "article"
    /\ backToTop = Element(FALSE, {}) /\ navbar = Element(FALSE, {})
    /\ ClickAtRest /\ favIcon = {"far"} /\ favText = UnfavoritedText /\ favPrimary = FALSE
    /\ SearchAtRest /\ orderBy = <<"d">>
    /\ ArticleAtRest /\ AllArticleElements /\ ToastAtRest /\ AuthorAtRest /\ FoldAtRest /\ NoFold

Invocations ==
    { Invocation(f, l, ph) :
        f \in Forms,
        l \in {PageLoadLabel(g) : g \in Forms} \cup {LoadingLabel(g) : g \in Forms},
        ph \in {"fetch", "json"} }

Next ==
    \/ \E f \in Forms : SetupCalled(f)
    \/ \E f \in Forms : FpPromiseResolved(f)
    \/ \E f \in Forms : FpPromiseRejected(f)
    \/ \E f \in Forms, vid \in VisitorIds : GetResolved(f, vid)
    \/ \E f \in Forms : GetRejected(f)
    \/ \E f \in Forms, digestOk \in BOOLEAN : FallbackResolved(f, digestOk)
    \/ \E f \in Forms, s \in Emails : UserTypesEmail(f, s)
    \/ \E f \in Forms : Submit(f)
    \/ \E inv \in Invocations : FetchRejected(inv)
    \/ \E inv \in Invocations : FetchResolved(inv)
    \/ \E inv \in Invocations : JsonRejected(inv)
    \/ \E inv \in Invocations, r \in Results : JsonResolved(inv, r)

Spec == Init /\ [][Next]_vars

\* ---- the scroll-triggered toggles
ScrollInit ==
    /\ ScrollAtRest
    /\ page \in Pages
    /\ backToTop \in {Element(FALSE, {})}
                       \cup {Element(TRUE, cl) : cl \in SUBSET (VisibleClasses \cup HiddenClasses)}
    /\ navbar \in {Element(FALSE, {})}
                    \cup {Element(TRUE, cl) : cl \in SUBSET {"shadow-md", "bg-white/90", "bg-white"}}
    /\ SubscribeAtRest /\ NoForms
    /\ ClickAtRest /\ favIcon = {"far"} /\ favText = UnfavoritedText /\ favPrimary = FALSE
    /\ SearchAtRest /\ orderBy = <<"d">>
    /\ ArticleAtRest /\ AllArticleElements /\ ToastAtRest /\ AuthorAtRest /\ FoldAtRest /\ NoFold

ScrollNext ==
    \/ DOMContentLoaded
    \/ \E y \in ScrollOffsets : Scroll(y)
    \/ BackToTopClick

SpecScroll == ScrollInit /\ [][ScrollNext]_vars

\* ---- the mobile menu and the favorite button
ClickInit ==
    /\ ClickAtRest
    /\ favIcon \in SUBSET {"far", "fas"}
    /\ favText \in FavTexts
    /\ favPrimary \in BOOLEAN
    /\ SubscribeAtRest /\ NoForms
    /\ ScrollAtRest /\ page = "article"
    /\ backToTop = Element(FALSE, {}) /\ navbar = Element(FALSE, {})
    /\ SearchAtRest /\ orderBy = <<"d">>
    /\ ArticleAtRest /\ AllArticleElements /\ ToastAtRest /\ AuthorAtRest /\ FoldAtRest /\ NoFold

\* the click listeners on their own; the timers of the toasts run in SpecToast
ClickNext ==
    \E t \in ClickTargets, w \in InnerWidths : Click(t, w)

SpecClick == ClickInit /\ [][ClickNext]_vars

\* ---- the search box
SearchInit ==
    /\ SearchAtRest
    /\ orderBy \in OrderBys
    /\ SubscribeAtRest /\ NoForms
    /\ ScrollAtRest /\ page = "search"
    /\ backToTop = Element(FALSE, {}) /\ navbar = Element(FALSE, {})
    /\ ClickAtRest /\ favIcon = {"far"} /\ favText = UnfavoritedText /\ favPrimary = FALSE
    /\ ArticleAtRest /\ AllArticleElements /\ ToastAtRest /\ AuthorAtRest /\ FoldAtRest /\ NoFold

SearchNext ==
    \/ \E k \in Keywords : UserTypesKeyword(k)
    \/ \E o \in OrderBys : UserSelectsOrder(o)
    \/ SearchButtonClick
    \/ \E key \in Keys : SearchKeypress(key)

SpecSearch == SearchInit /\ [][SearchNext]_vars

\* ---- the article page from DOMContentLoaded on, with its subscribe form
ArticleInit ==
    /\ ArticleAtRest
    /\ articleDom \in [favorite : BOOLEAN, link : BOOLEAN]
    /\ backToTop \in {Element(FALSE, {}), Element(TRUE, HiddenClasses)}
    /\ SubscribeAtRest
    /\ formPresent \in {fp \in [Forms -> BOOLEAN] : ~fp["footer"]}
    /\ env \in Envs
    /\ ScrollAtRest /\ page = "article" /\ navbar = Element(FALSE, {})
    /\ ClickAtRest /\ favIcon = {"far"} /\ favText = UnfavoritedText /\ favPrimary = FALSE
    /\ SearchAtRest /\ orderBy = <<"d">>
    /\ ToastAtRest /\ AuthorAtRest /\ FoldAtRest /\ NoFold

ArticleNext ==
    \/ ArticleDOMContentLoaded
    \/ \E f \in Forms : FpPromiseResolved(f)
    \/ \E f \in Forms : FpPromiseRejected(f)
    \/ \E f \in Forms, vid \in VisitorIds : GetResolved(f, vid)
    \/ \E f \in Forms : GetRejected(f)
    \/ \E f \in Forms, digestOk \in BOOLEAN : FallbackResolved(f, digestOk)
    \/ \E f \in Forms, s \in Emails : UserTypesEmail(f, s)
    \/ \E f \in Forms : SubmitWithoutListener(f)
    \/ \E f \in Forms : Submit(f)
    \/ \E inv \in Invocations : FetchRejected(inv)
    \/ \E inv \in Invocations : FetchResolved(inv)
    \/ \E inv \in Invocations : JsonRejected(inv)
    \/ \E inv \in Invocations, r \in Results : JsonResolved(inv, r)

SpecArticle == ArticleInit /\ [][ArticleNext]_vars

\* ---- favorite and copy-link clicks with the timers of their toasts
ToastInit ==
    /\ ClickAtRest /\ ToastAtRest
    /\ favIcon \in {{"far"}, {"fas"}, {"far", "fas"}, {}}
    /\ favText = IF favIcon = {"fas"} THEN FavoritedText ELSE UnfavoritedText
    /\ favPrimary = (favIcon = {"fas"})
    /\ SubscribeAtRest /\ NoForms
    /\ ScrollAtRest /\ page = "article"
    /\ backToTop = Element(FALSE, {}) /\ navbar = Element(FALSE, {})
    /\ SearchAtRest /\ orderBy = <<"d">>
    /\ ArticleAtRest /\ AllArticleElements /\ AuthorAtRest /\ FoldAtRest /\ NoFold

ToastNext ==
    \/ \E t \in ClickTargets, w \in {MobileBreakpoint} : Click(t, w)
    \/ \E i \in ToastSlots : ToastFade(i)
    \/ \E i \in ToastSlots : ToastRemove(i)

\* a timer that was set fires: setTimeout callbacks are never cancelled here
ToastFairness ==
    \A i \in ToastSlots : WF_vars(ToastFade(i)) /\ WF_vars(ToastRemove(i))

SpecToast == ToastInit /\ [][ToastNext]_vars /\ ToastFairness

\* ---- the author page
AuthorInit ==
    /\ AuthorAtRest
    /\ ScrollAtRest /\ page = "author"
    /\ backToTop \in {Element(FALSE, {}), Element(TRUE, HiddenClasses)}
    /\ navbar = Element(TRUE, {"bg-white/90"})
    /\ SubscribeAtRest /\ NoForms
    /\ ClickAtRest /\ favIcon = {"far"} /\ favText = UnfavoritedText /\ favPrimary = FALSE
    /\ SearchAtRest /\ orderBy = <<"d">>
    /\ ArticleAtRest /\ AllArticleElements /\ ToastAtRest /\ FoldAtRest /\ NoFold

AuthorNext ==
    \/ DOMContentLoaded
    \/ \E y \in ScrollOffsets : Scroll(y)
    \/ BackToTopClick
    \/ \E t \in AuthorTargets : AuthorClick(t)

SpecAuthor == AuthorInit /\ [][AuthorNext]_vars

\* ---- the fold hash over strings
FoldInit ==
    /\ FoldAtRest
    /\ foldInput \in FoldStrings
    /\ SubscribeAtRest /\ NoForms
    /\ ScrollAtRest /\ page = "article"
    /\ backToTop = Element(FALSE, {}) /\ navbar = Element(FALSE, {})
    /\ ClickAtRest /\ favIcon = {"far"} /\ favText = UnfavoritedText /\ favPrimary = FALSE
    /\ SearchAtRest /\ orderBy = <<"d">>
    /\ ArticleAtRest /\ AllArticleElements /\ ToastAtRest /\ AuthorAtRest

FoldNext == ComputeFold

SpecFold == FoldInit /\ [][FoldNext]_vars

\* ===================================================================== claims
FinishOps == {"fetchRejected", "jsonRejected", "jsonResolved"}

PostsIn(es) == Cardinality({i \in 1..Len(es) : es[i][1] = "POST"})
AlertsIn(es) == SelectSeq(es, LAMBDA x : x[1] = "alert")
IsSubmitOf(op, f) == op.op = "submit" /\ op.form = f

\* C1: whenever a submit handler finishes (success=true, success=false, fetch
\* rejection, JSON parse failure), the form's submit control is enabled and
\* carries the label it had at page load, also when submissions overlap.
C1_ControlRestoredAfterEveryOutcome ==
    lastOp.op \in FinishOps =>
        /\ ~btnDisabled[lastOp.form]
        /\ btnLabel[lastOp.form] = PageLoadLabel(lastOp.form)

\* C2: a submission whose email is empty after trimming or has no '@' shows
\* the validation alert and nothing else: no request is issued, and the
\* control's enabled flag, its label and the email field stay as they were.
C2_InvalidEmailAborts ==
    [][\A f \in Forms :
         (IsSubmitOf(lastOp', f) /\ (trim(email[f]) = <<>> \/ ~includes(email[f], "@")))
           => /\ effects' = <<Alert(InvalidEmailAlert)>>
              /\ pending' = pending
              /\ btnDisabled' = btnDisabled
              /\ btnLabel' = btnLabel
              /\ email' = email]_vars

C2_Witness ==
    /\ IsSubmitOf(lastOp, "article")
    /\ email["article"] = <<"a", "b">>
    /\ effects = <<Alert(InvalidEmailAlert)>>
    /\ pending # EmptyBag
    /\ btnDisabled["article"]

\* C3: a submission whose trimmed email is non-empty and has an '@' issues
\* exactly one POST carrying the email field and a non-empty fingerprint, and
\* no other step issues a POST; a response with success=true clears the email
\* field right after the message alert, one with success=false leaves it.
C3_OnePostAndClearOnSuccess ==
    [][\A f \in Forms :
         /\ (IsSubmitOf(lastOp', f) /\ trim(email[f]) # <<>> /\ includes(email[f], "@"))
              => /\ PostsIn(effects') = 1
                 /\ \E i \in 1..Len(effects') : effects'[i] = Post(email[f], fingerprint[f])
                 /\ fingerprint[f] # <<>>
                 /\ BagCardinality(pending') = BagCardinality(pending) + 1
         /\ lastOp'.op # "submit"
              => /\ PostsIn(effects') = 0
                 /\ BagCardinality(pending') <= BagCardinality(pending)
         /\ (lastOp'.op = "jsonResolved" /\ lastOp'.form = f /\ ~lastOp'.result.null)
              => IF lastOp'.result.success
                 THEN /\ effects'[1] = Alert(lastOp'.result.message)
                      /\ effects'[2] = ClearEmail
                      /\ email'[f] = <<>>
                 ELSE /\ effects'[1] = Alert(lastOp'.result.message)
                      /\ \A i \in 1..Len(effects') : effects'[i] # ClearEmail
                      /\ email' = email]_vars

C3_Witness ==
    /\ lastOp.op = "jsonResolved"
    /\ lastOp.form = "footer"
    /\ lastOp.result.success
    /\ effects[2] = ClearEmail
    /\ email["footer"] = <<>>
    /\ email["article"] # <<>>

\* C10: when the fetch rejects or the body fails to parse, exactly one alert,
\* the generic failure message, is shown, the email field keeps its value and
\* no further request is issued for that submission.
C10_FailureAlertsOnceNoRetry ==
    [][(lastOp'.op \in {"fetchRejected", "jsonRejected"})
         => /\ AlertsIn(effects') = <<Alert(SubscribeFailedAlert)>>
            /\ email' = email
            /\ PostsIn(effects') = 0
            /\ BagCardinality(pending') = BagCardinality(pending) - 1]_vars

C10_Witness ==
    /\ lastOp.op = "jsonRejected"
    /\ AlertsIn(effects) = <<Alert(SubscribeFailedAlert)>>
    /\ email[lastOp.form] = <<" ", "a", "@", "b", " ">>
    /\ pending = EmptyBag

\* ---- subscription setup
SubmitEventOps == {"submit", "submitWithoutListener"}

\* C11: every submit event on a subscribe form after DOMContentLoaded is
\* handled by the script's listener and its default submission is prevented,
\* also when it arrives while setup still awaits the fingerprint.
C11_EverySubmitEventHandled ==
    lastOp.op \in SubmitEventOps =>
        /\ lastOp.op = "submit"
        /\ \A i \in 1..Len(effects) : effects[i] # DefaultSubmission

SetupFailureOps == {"fpPromiseRejected", "getRejected"}

FingerprintWritesIn(es) == Cardinality({i \in 1..Len(es) : es[i][1] = "fingerprint"})

FallbackHashes == {generateSimpleFingerprint(e, d) : e \in Envs, d \in BOOLEAN}

\* C12: when awaiting the library promise or fp.get() fails, setup goes on to
\* the fallback without an alert, and when the fallback is there the field
\* holds the fallback hash and the submit listener is installed; the field is
\* written once per form, at the step that installs the listener, so before
\* any POST of the handler.
C12_LibraryFailureFallsBack ==
    [][\A f \in Forms :
         /\ (lastOp'.op \in SetupFailureOps /\ lastOp'.form = f)
              => /\ setupPc'[f] = "awaitFallback"
                 /\ effects' = <<>>
                 /\ fingerprint' = fingerprint
         /\ (lastOp'.op = "fallbackResolved" /\ lastOp'.form = f)
              => /\ fingerprint'[f] \in {generateSimpleFingerprint(env, d) : d \in BOOLEAN}
                 /\ effects' = <<SetFingerprint(fingerprint'[f]), AddSubmitListener>>
                 /\ setupPc'[f] = "installed"
         /\ (fingerprint'[f] # fingerprint[f]
               \/ (lastOp'.form = f /\ FingerprintWritesIn(effects') > 0))
              => /\ setupPc[f] \notin {"installed", "returned"}
                 /\ setupPc'[f] = "installed"
                 /\ FingerprintWritesIn(effects') = 1
                 /\ PostsIn(effects') = 0
         /\ setupPc[f] \in {"installed", "returned"} => setupPc'[f] = setupPc[f]
         /\ (lastOp'.form = f /\ PostsIn(effects') > 0) => setupPc[f] = "installed"]_vars

C12_Witness ==
    /\ IsSubmitOf(lastOp, "footer")
    /\ fingerprint["footer"] \in FallbackHashes
    /\ fingerprint["footer"][1] # "sha256:"
    /\ \E i \in 1..Len(effects) : effects[i] = Post(email["footer"], fingerprint["footer"])
    /\ setupPc["article"] = "awaitFallback"

\* C16: the DOMContentLoaded listener of the article page calls back-to-top,
\* favorite, copy-link and subscribe setup in this order; a missing
\* back-to-top button, favorite button or .fa-link icon raises nothing and
\* stops no later step, so setup of the subscribe form is entered whenever
\* the form and its fingerprint field exist.
C16_MissingElementStopsNothing ==
    initLog.loaded =>
        /\ initLog.called = <<"backToTop", "favorite", "copyLink", "subscribe">>
        /\ initLog.thrown = {}
        /\ formPresent["article"] => setupPc["article"] # "start"

\* C17: while a POST issued by a form still awaits its response, that form's
\* submit control is disabled and shows the loading indicator.
C17_DisabledWhileInFlight ==
    \A inv \in BagToSet(pending) :
        inv.phase = "fetch" =>
            /\ btnDisabled[inv.form]
            /\ btnLabel[inv.form] = LoadingLabel(inv.form)

\* ---- fold hash
\* the reference fold, h_0 = 0 and h_{i+1} = 31 * h_i + code(s[i]) modulo
\* 2^32, on 16-bit halves of the residue; refFold(s, n) is h_n
refStep(h, c) ==
    LET lo == 31 * h[2] + c
    IN  <<(31 * h[1] + lo \div 65536) % 65536, lo % 65536>>

RECURSIVE refFold(_, _)
refFold(s, n) ==
    IF n = 0 THEN <<0, 0>> ELSE refStep(refFold(s, n - 1), charCode(s[n]))

\* the residue as a number of the signed range [-2^31, 2^31 - 1]
signedValue(h) ==
    IF h[1] >= 32768 THEN (h[1] - 65536) * 65536 + h[2] ELSE h[1] * 65536 + h[2]

RECURSIVE base16(_)
base16(n) ==
    IF n < 16
    THEN <<HexDigits[n + 1]>>
    ELSE Append(base16(n \div 16), HexDigits[(n % 16) + 1])

\* base-16 text of a signed number
signedBase16(v) == IF v < 0 THEN <<"-">> \o base16(-v) ELSE base16(v)

\* C18: for every string the loop's result is the reference fold reduced to
\* the signed 32-bit range, and the returned text is that number in base 16:
\* "0" for the empty string, a leading '-' exactly when it is negative.
C18_FoldHashMatchesReference ==
    foldOutput # <<>> =>
        LET v == signedValue(refFold(foldInput, Len(foldInput)))
        IN  /\ foldOutput = signedBase16(v)
            /\ foldInput = <<>> => foldOutput = <<"0">>
            /\ (foldOutput[1] = "-") <=> (v < 0)

C18_Witness ==
    /\ foldInput = <<"|", "0", "z", "|", "0", "z", "|">>
    /\ foldOutput = <<"-", "7", "a", "2", "5", "9", "c", "4">>

\* ---- scroll
ScrollHandled ==
    /\ lastScroll.op \in {"scroll", "backToTopClick"}
    /\ "backToTop" \in scrollListeners

ShowsVisibleSet(cl) ==
    /\ {"opacity-100", "visible"} \subseteq cl
    /\ cl \cap {"opacity-0", "invisible"} = {}

ShowsHiddenSet(cl) ==
    /\ {"opacity-0", "invisible"} \subseteq cl
    /\ cl \cap {"opacity-100", "visible"} = {}

\* C4 as claimed: after a scroll event at offset >= 300 the back-to-top button
\* carries the visible class set, after one at offset < 300 the hidden set.
C4_VisibleFrom300 ==
    ScrollHandled =>
        IF scrollY >= 300
        THEN ShowsVisibleSet(backToTop.classList)
        ELSE ShowsHiddenSet(backToTop.classList)

\* C4 as amended: after a scroll event at offset > 300 the back-to-top button
\* carries the visible class set, after one at offset <= 300 (300 included)
\* the hidden set; on all three pages.
C4_VisibleAbove300 ==
    ScrollHandled =>
        IF scrollY > 300
        THEN ShowsVisibleSet(backToTop.classList)
        ELSE ShowsHiddenSet(backToTop.classList)

C4_Witness ==
    /\ ScrollHandled
    /\ lastScroll.op = "scroll"
    /\ page = "article"
    /\ scrollY = 300
    /\ ShowsHiddenSet(backToTop.classList)

\* C8: when the target element is absent, setup registers nothing for it and
\* no scroll event raises an error.
C8_AbsentElementIsNoOp ==
    lastScroll.op = "scroll" =>
        /\ ~navbar.present =>
             "navbar" \notin scrollListeners /\ "navbar" \notin lastScroll.thrown
        /\ ~backToTop.present =>
             "backToTop" \notin scrollListeners /\ "backToTop" \notin lastScroll.thrown

IsScrollEvent(op) == op \in {"scroll", "backToTopClick"}

\* C15: two consecutive scroll events whose offsets lie on the same side of
\* a listener's threshold (300 for back-to-top, 50 for the navbar) leave the
\* class set the first one left; after every scroll event the navbar carries
\* shadow-md and bg-white without bg-white/90 when scrollY > 50, and
\* bg-white/90 without shadow-md and bg-white otherwise.
C15_ScrollIdempotentExclusive ==
    /\ []((IsScrollEvent(lastScroll.op) /\ "navbar" \in scrollListeners /\ navbar.present)
            => IF scrollY > 50
               THEN /\ {"shadow-md", "bg-white"} \subseteq navbar.classList
                    /\ "bg-white/90" \notin navbar.classList
               ELSE /\ "bg-white/90" \in navbar.classList
                    /\ navbar.classList \cap {"shadow-md", "bg-white"} = {})
    /\ [][(IsScrollEvent(lastScroll.op) /\ IsScrollEvent(lastScroll'.op) /\ loaded)
            => /\ ((scrollY > 300) = (scrollY' > 300)) => backToTop' = backToTop
               /\ ((scrollY > 50) = (scrollY' > 50)) => navbar' = navbar]_vars

C15_Witness ==
    /\ prevScroll = [op |-> "scroll", y |-> 51]
    /\ lastScroll.op = "scroll"
    /\ scrollY = 299
    /\ page = "search"
    /\ navbar = Element(TRUE, {"shadow-md", "bg-white"})
    /\ backToTop = Element(TRUE, {"opacity-0", "invisible"})

\* ---- favorite button
CanonicalFavStates ==
    { FavState({"far"}, UnfavoritedText, FALSE), FavState({"fas"}, FavoritedText, TRUE) }

\* C5 as claimed: from any state of the button, two consecutive clicks bring
\* icon class, label and colour class back to what they were.
C5_TwoClicksRoundTrip ==
    Len(favBefore) = 2 => favNow = favBefore[1]

\* C5 as amended: from the unfavorited state (far, '收藏文章', no text-primary)
\* and from the favorited state (fas, '已收藏', text-primary), two consecutive
\* clicks bring icon class, label and colour class back to what they were.
C5_TwoClicksRoundTripFromToggleStates ==
    (Len(favBefore) = 2 /\ favBefore[1] \in CanonicalFavStates) => favNow = favBefore[1]

C5_Witness ==
    /\ Len(favBefore) = 2
    /\ favBefore[1] = FavState({"fas"}, FavoritedText, TRUE)
    /\ favBefore[2] = FavState({"far"}, UnfavoritedText, FALSE)
    /\ favNow = favBefore[1]

\* ---- toasts
IsClickOn(t) == lastToast'.op = "click" /\ lastClick'.target = t

\* the click put one new toast in the body and left the others alone
AppendsOneToast ==
    /\ toastsAppended(lastToast'.body) = 1
    /\ lastToast'.slot \in ToastSlots
    /\ toasts[lastToast'.slot] = "absent"
    /\ toasts' = [toasts EXCEPT ![lastToast'.slot] = "shown"]

\* a toast in the body only moves on by its own timers: first opacity 0,
\* then removeChild
ToastStepsInOrder ==
    \A i \in ToastSlots :
        toasts'[i] # toasts[i] =>
            \/ toasts[i] = "absent" /\ toasts'[i] = "shown" /\ lastToast'.op = "click"
            \/ /\ toasts[i] = "shown" /\ toasts'[i] = "faded"
               /\ lastToast' = [op |-> "fade", slot |-> i, body |-> <<SetOpacity0>>]
            \/ /\ toasts[i] = "faded" /\ toasts'[i] = "absent"
               /\ lastToast' = [op |-> "remove", slot |-> i, body |-> <<RemoveToast>>]

NoToast == \A i \in ToastSlots : toasts[i] = "absent"

FavoritedState == FavState({"fas"}, FavoritedText, TRUE)

\* C13: a click on the favorite button appends a toast exactly when it takes
\* the button from unfavorited (icon far) to favorited; every toast in the
\* body is first faded and then removed, once, and once clicks stop the body
\* eventually holds no toast.
C13_FavoriteToastLifecycle ==
    /\ [][IsClickOn("favorite-btn")
            => /\ AppendsOneToast <=> ("far" \in favIcon /\ favNow' = FavoritedState)
               /\ ~AppendsOneToast
                    => /\ toastsAppended(lastToast'.body) = 0
                       /\ toasts' = toasts
                       /\ "far" \notin favIcon /\ favNow' # FavoritedState]_vars
    /\ [][ToastStepsInOrder]_vars
    /\ \A i \in ToastSlots : (toasts[i] = "shown") ~> (toasts[i] = "faded")
    /\ \A i \in ToastSlots : (toasts[i] = "faded") ~> (toasts[i] = "absent")
    /\ (<>[][lastToast'.op # "click"]_vars) => <>[]NoToast

C13_Witness ==
    /\ lastToast.op = "remove"
    /\ NoToast
    /\ lastClick.target = "favorite-btn"
    /\ Len(favBefore) = 2
    /\ favBefore[2] = FavState({"far"}, UnfavoritedText, FALSE)
    /\ favNow = FavoritedState

\* C14: a click on the copy-link button leaves no temporary input in the
\* body and appends exactly one toast, also while toasts of earlier clicks are
\* still in the body; that toast is later faded and then removed, once.
C14_CopyLinkToastLifecycle ==
    /\ [][IsClickOn("copy-link")
            => /\ inputsLeft(lastToast'.body) = 0
               /\ Occurrences(lastToast'.body, AppendToast(CopyToastText)) = 1
               /\ AppendsOneToast]_vars
    /\ [][\A i \in ToastSlots :
            /\ (toasts[i] = "shown" /\ toasts'[i] # "shown")
                 => toasts'[i] = "faded" /\ lastToast'.body = <<SetOpacity0>>
            /\ (toasts[i] = "faded" /\ toasts'[i] # "faded")
                 => toasts'[i] = "absent" /\ lastToast'.body = <<RemoveToast>>
            /\ (toasts[i] = "absent" /\ toasts'[i] # "absent")
                 => toasts'[i] = "shown" /\ lastToast'.slot = i]_vars
    /\ \A i \in ToastSlots : (toasts[i] # "absent") ~> (toasts[i] = "absent")

C14_Witness ==
    /\ lastToast.op = "click"
    /\ lastClick.target = "copy-link"
    /\ lastToast.slot = MaxToasts
    /\ inputsLeft(lastToast.body) = 0
    /\ \A i \in ToastSlots : toasts[i] = IF i = MaxToasts THEN "shown" ELSE "faded"
    /\ favNow = FavState({"far"}, UnfavoritedText, FALSE)

\* ---- mobile menu
\* C6: the menu starts closed; a click on the toggle button flips it at every
\* width; a click outside menu and button closes it below 768 and changes
\* nothing otherwise; a click inside the menu never reaches the document
\* listener and never changes it.
C6_MobileMenuTransitions ==
    /\ [](lastClick.target = "none" => menuHidden)
    /\ [][/\ lastClick'.target = "menu-toggle" => menuHidden' = ~menuHidden
          /\ lastClick'.target \notin {"menu-toggle", "mobile-menu"}
               => IF lastClick'.innerWidth < 768
                  THEN menuHidden'
                  ELSE menuHidden' = menuHidden
          /\ lastClick'.target = "mobile-menu"
               => ~lastClick'.reachedDocument /\ menuHidden' = menuHidden]_vars

C6_Witness ==
    /\ lastClick.target = "mobile-menu"
    /\ lastClick.innerWidth = 320
    /\ ~lastClick.reachedDocument
    /\ ~menuHidden

\* ---- author page message box
BoxVisible == "hidden" \notin box

\* C19: the message box is visible exactly when the most recent click among
\* apply button, close button and backdrop was on the apply button; a click
\* on the content inside the box never changes its visibility.
C19_BoxVisibleIffLastOuterClickApply ==
    /\ [](BoxVisible <=> lastBoxClick.outer = "applyBtn")
    /\ [][lastBoxClick'.target = "content"
            => ("hidden" \in box') = ("hidden" \in box)]_vars

C19_Witness ==
    /\ lastBoxClick = [target |-> "content", outer |-> "applyBtn"]
    /\ box = {"fade-in"}

\* ---- search box
Searches(ls) == ls.op = "click" \/ (ls.op = "keypress" /\ ls.key = "Enter")

\* C7 as claimed: click and Enter navigate to
\* "/search?keyword=" + trim(k) + "&order_by=" + o; other keys do not navigate.
C7_NavigatesWithRawOrder ==
    [][/\ Searches(lastSearch')
            => href' = <<"/search?keyword=">> \o trim(keyword) \o <<"&order_by=">> \o orderBy
       /\ (lastSearch'.op = "keypress" /\ lastSearch'.key # "Enter") => href' = href]_vars

\* C7 as amended: click and Enter navigate to
\* "/search?keyword=" + trim(k) + "&order_by=" + trim(o), also for an empty or
\* whitespace-only keyword; other keys do not navigate.
C7_NavigatesWithTrimmedOrder ==
    [][/\ Searches(lastSearch')
            => href' = <<"/search?keyword=">> \o trim(keyword)
                         \o <<"&order_by=">> \o trim(orderBy)
       /\ (lastSearch'.op = "keypress" /\ lastSearch'.key # "Enter") => href' = href]_vars

C7_Witness ==
    /\ lastSearch.op = "keypress"
    /\ lastSearch.key = "Enter"
    /\ keyword = <<" ", "r", "&", " ">>
    /\ orderBy = <<"v", " ">>
    /\ href = <<"/search?keyword=", "r", "&", "&order_by=", "v">>

====
